---- MODULE Spec2Model ----
(***************************************************************************)
(* A model of BinaryCSP.py: the constraint classes, the CSP and Assignment *)
(* objects, the consistency check, unary elimination, the ordering         *)
(* heuristics, forward checking, revise / maintainArcConsistency / AC3,    *)
(* the recursive backtracking driver and solve.                            *)
(*                                                                         *)
(* Spec is a call of solve on a constructed problem; CallSpec is a direct  *)
(* call of forwardChecking, maintainArcConsistency or AC3 on an Assignment *)
(* a caller has partly filled in; FairSpec is either kind of call, every   *)
(* step that can be taken being taken.                                     *)
(*                                                                         *)
(* Variables are the numbers 1..NumVars, in the iteration order of the     *)
(* dictionaries (csp.varDomains, assignment.varDomains and                 *)
(* assignment.assignedValues are built over the same keys).  Values are    *)
(* the numbers 1..MaxVal and a set of values is iterated in ascending      *)
(* order, as CPython iterates a set of small integers.  None is 0.         *)
(***************************************************************************)
EXTENDS Integers, Sequences, FiniteSets, TLC

NumVars == 3
MaxVal == 2
MaxBin == 3
MaxUnary == 2

None == 0
Vars == 1..NumVars
Values == 1..MaxVal

(***************************************************************************)
(* Generic helpers (Python built-ins).                                     *)
(***************************************************************************)
SetMin(S) == CHOOSE x \in S : \A y \in S : x <= y

RECURSIVE SetToList(_)
\* list(aSet): the elements in iteration order
SetToList(S) ==
    IF S = {} THEN <<>>
    ELSE LET m == SetMin(S) IN <<m>> \o SetToList(S \ {m})

RECURSIVE SumSeq(_)
SumSeq(s) == IF s = <<>> THEN 0 ELSE Head(s) + SumSeq(Tail(s))

Range(s) == {s[i] : i \in 1..Len(s)}

(***************************************************************************)
(* Constraint model.                                                       *)
(* A unary constraint is [var, kind, val] with kind BadValue or GoodValue. *)
(* A binary constraint is [var1, var2, rel].  BinaryConstraint.isSatisfied *)
(* is abstract ("Implement isSatisfied in subclass to use"): rel names the *)
(* subclass, NotEqual being the one the file ships and LessOrEqual         *)
(* an order-sensitive subclass (value1 <= value2).                         *)
(***************************************************************************)
UnaryKinds == {"BadValue", "GoodValue"}
Relations == {"NotEqual", "LessOrEqual"}

UnaryAffects(c, var) == var = c.var

UnaryIsSatisfied(c, value) ==
    IF c.kind = "BadValue" THEN ~(value = c.val) ELSE value = c.val

\* NotEqualConstraint.isSatisfied
NotEqualIsSatisfied(value1, value2) == IF value1 = value2 THEN FALSE ELSE TRUE

\* an order-sensitive subclass of BinaryConstraint
LessOrEqualIsSatisfied(value1, value2) == value1 <= value2

isSatisfied(c, value1, value2) ==
    IF c.rel = "NotEqual" THEN NotEqualIsSatisfied(value1, value2)
    ELSE LessOrEqualIsSatisfied(value1, value2)

affects(c, var) == var = c.var1 \/ var = c.var2

otherVariable(c, var) == IF var = c.var1 THEN c.var2 ELSE c.var1

(***************************************************************************)
(* ConstraintSatisfactionProblem and Assignment.                           *)
(* A csp is [varDomains, binaryConstraints, unaryConstraints]; an          *)
(* assignment is [varDomains, assignedValues].                             *)
(***************************************************************************)
concerned_constraints(csp, var) ==
    SelectSeq(csp.binaryConstraints, LAMBDA c : affects(c, var))

number_of_concerned_constraints(csp, var) == Len(concerned_constraints(csp, var))

\* Assignment.__init__
NewAssignment(csp) ==
    [varDomains |-> [var \in Vars |-> csp.varDomains[var]],
     assignedValues |-> [var \in Vars |-> None]]

isAssigned(assignment, var) == assignment.assignedValues[var] # None

isComplete(assignment) == \A var \in Vars : isAssigned(assignment, var)

\* the no-solution value, as a result of solve
NoneResult == [kind |-> "None", values |-> [var \in Vars |-> None]]

extractSolution(assignment) ==
    IF ~isComplete(assignment) THEN NoneResult
    ELSE [kind |-> "mapping", values |-> assignment.assignedValues]

(***************************************************************************)
(* consistent                                                              *)
(***************************************************************************)
consistent_concerned(assignment, csp, var) ==
    SelectSeq(csp.binaryConstraints,
              LAMBDA c : affects(c, var) /\ isAssigned(assignment, otherVariable(c, var)))

consistent(assignment, csp, var, value) ==
    LET cc == consistent_concerned(assignment, csp, var)
    IN \A i \in 1..Len(cc) :
          isSatisfied(cc[i], value, assignment.assignedValues[otherVariable(cc[i], var)])

\* the isSatisfied evaluations of one consistent call: the constraint and the
\* variables whose values are passed as value1 and as value2
consistent_calls(assignment, csp, var) ==
    LET cc == consistent_concerned(assignment, csp, var)
    IN {[fn |-> "consistent", c |-> cc[i], arg1 |-> var,
         arg2 |-> otherVariable(cc[i], var)] : i \in 1..Len(cc)}

(***************************************************************************)
(* eliminateUnaryConstraints: the result is [ok, varDomains]; on failure   *)
(* varDomains is what the loop had written when it returned None.          *)
(***************************************************************************)
RECURSIVE RemoveUntilEmpty(_, _)
\* for value in <bad values>: domain.remove(value); if len == 0: return None
RemoveUntilEmpty(domain, bad) ==
    IF bad = <<>> THEN [ok |-> TRUE, domain |-> domain]
    ELSE LET d == domain \ {Head(bad)}
         IN IF Cardinality(d) = 0 THEN [ok |-> FALSE, domain |-> d]
            ELSE RemoveUntilEmpty(d, Tail(bad))

RECURSIVE EliminateVar(_, _, _)
\* the loop over the unary constraints that affect var
EliminateVar(domain, cs, var) ==
    IF cs = <<>> THEN [ok |-> TRUE, domain |-> domain]
    ELSE LET c == Head(cs)
             bad == SelectSeq(SetToList(domain), LAMBDA v : ~UnaryIsSatisfied(c, v))
             r == RemoveUntilEmpty(domain, bad)
         IN IF ~r.ok THEN r ELSE EliminateVar(r.domain, Tail(cs), var)

RECURSIVE EliminateFrom(_, _, _)
\* the loop over the variables, from variable var on
EliminateFrom(domains, csp, var) ==
    IF var > NumVars THEN [ok |-> TRUE, varDomains |-> domains]
    ELSE LET cs == SelectSeq(csp.unaryConstraints, LAMBDA c : UnaryAffects(c, var))
             r == EliminateVar(domains[var], cs, var)
             d == [domains EXCEPT ![var] = r.domain]
         IN IF ~r.ok THEN [ok |-> FALSE, varDomains |-> d]
            ELSE EliminateFrom(d, csp, var + 1)

eliminateUnaryConstraints(assignment, csp) ==
    EliminateFrom(assignment.varDomains, csp, 1)

(***************************************************************************)
(* Variable selection.                                                     *)
(***************************************************************************)
unassigned_variables(assignment) ==
    SelectSeq([i \in 1..NumVars |-> i], LAMBDA var : ~isAssigned(assignment, var))

\* the first unassigned variable (None when there is none)
chooseFirstVariable(assignment, csp) ==
    LET u == unassigned_variables(assignment)
    IN IF u = <<>> THEN None ELSE Head(u)

\* (the first element, whatever its key)
MaxByKeyIgnoringKey(list, key) == list[1]

\* max(list, key): the first element with the largest key; key is the
\* function element -> key
MaxByKey(list, key) ==
    LET best == CHOOSE i \in 1..Len(list) :
                   /\ \A j \in 1..Len(list) : key[list[j]] <= key[list[i]]
                   /\ \A j \in 1..(i - 1) : key[list[j]] < key[list[i]]
    IN list[best]

minimumRemainingValuesHeuristic(assignment, csp) ==
    LET domains == assignment.varDomains
        u == unassigned_variables(assignment)
        min_length == SetMin({Cardinality(domains[u[i]]) : i \in 1..Len(u)})
        min_vars == SelectSeq(u, LAMBDA var : Cardinality(domains[var]) = min_length)
    IN MaxByKey(min_vars, [var \in Vars |-> number_of_concerned_constraints(csp, var)])

(***************************************************************************)
(* Value ordering.                                                         *)
(***************************************************************************)
orderValues(assignment, csp, var) == SetToList(assignment.varDomains[var])

num_of_choices(assignment, csp, var, value) ==
    LET domains == assignment.varDomains
        cc == concerned_constraints(csp, var)
    IN SumSeq([i \in 1..Len(cc) |->
                 Cardinality({choice \in domains[otherVariable(cc[i], var)] :
                                 isSatisfied(cc[i], choice, value)})])

reduced_choices(assignment, csp, var, value) ==
    num_of_choices(assignment, csp, var, None) - num_of_choices(assignment, csp, var, value)

RECURSIVE InsertByKey(_, _, _)
\* x placed after every element whose key is not larger (a stable sort);
\* key is the function value -> key
InsertByKey(sorted, x, key) ==
    IF sorted = <<>> THEN <<x>>
    ELSE IF key[Head(sorted)] <= key[x]
         THEN <<Head(sorted)>> \o InsertByKey(Tail(sorted), x, key)
         ELSE <<x>> \o sorted

RECURSIVE SortByKey(_, _)
\* list.sort(key=...)
SortByKey(list, key) ==
    IF list = <<>> THEN <<>>
    ELSE InsertByKey(SortByKey(SubSeq(list, 1, Len(list) - 1), key), list[Len(list)], key)

leastConstrainingValuesHeuristic(assignment, csp, var) ==
    LET values == SetToList(assignment.varDomains[var])
    IN SortByKey(values,
                 [value \in assignment.varDomains[var] |->
                     reduced_choices(assignment, csp, var, value)])

(***************************************************************************)
(* Inference methods.  Each returns [ok, varDomains, inferences, calls]:   *)
(* ok is FALSE for a None result, varDomains is what the call leaves in    *)
(* assignment.varDomains, inferences is the returned set of <<var, value>> *)
(* pairs, and calls are the isSatisfied evaluations it made.               *)
(***************************************************************************)
RemoveInferences(domains, inferences) ==
    [var \in Vars |-> domains[var] \ {p[2] : p \in {q \in inferences : q[1] = var}}]

\* (every value added to the domain of every variable)
AddInferencesToEveryVariable(domains, inferences) ==
    [var \in Vars |-> domains[var] \cup {p[2] : p \in inferences}]

\* for var, val in inferences: domains[var].add(val)
AddInferences(domains, inferences) ==
    [var \in Vars |-> domains[var] \cup {p[2] : p \in {q \in inferences : q[1] = var}}]

noInferences(assignment, csp, var, value) ==
    [ok |-> TRUE, varDomains |-> assignment.varDomains, inferences |-> {}, calls |-> {}]

\* the pairs of a set of inferences in iteration order
RECURSIVE PairsToList(_)
PairsToList(S) ==
    IF S = {} THEN <<>>
    ELSE LET p == CHOOSE x \in S : \A y \in S :
                      x[1] < y[1] \/ (x[1] = y[1] /\ x[2] <= y[2])
         IN <<p>> \o PairsToList(S \ {p})

\* (the removals of a failed call left out of the domains)
ForwardCheckingOnEmptyNoRestore(domains, inferences) == domains

\* what forwardChecking does to the domains once a removal has emptied one
ForwardCheckingOnEmpty(domains, inferences) == AddInferences(domains, inferences)

RECURSIVE ForwardCheckingLoop(_, _, _)

\* lines 475-479: one removal; if the domain is empty, add every inference
\* back and return None
ForwardCheckingBody(domains, todo, inferences) ==
    LET p == Head(todo)
        d == [domains EXCEPT ![p[1]] = @ \ {p[2]}]
    IN IF d[p[1]] = {}
       THEN [ok |-> FALSE, varDomains |-> ForwardCheckingOnEmpty(d, inferences),
             inferences |-> {}]
       ELSE ForwardCheckingLoop(d, Tail(todo), inferences)

\* line 474: for variable, choice in inferences; every iteration starts from
\* the values of the loop's variables
ForwardCheckingLoop(domains, todo, inferences) ==
    IF todo = <<>>
    THEN [ok |-> TRUE, varDomains |-> domains, inferences |-> inferences]
    ELSE CHOOSE r \in {ForwardCheckingBody(d, t, i) :
                          d \in {domains}, t \in {todo}, i \in {inferences}} : TRUE

forwardChecking_inferences(assignment, csp, var, value) ==
    LET domains == assignment.varDomains
        cc == concerned_constraints(csp, var)
    IN UNION {{<<otherVariable(cc[i], var), choice>> :
                  choice \in {ch \in domains[otherVariable(cc[i], var)] :
                                 ~isSatisfied(cc[i], value, ch)}} : i \in 1..Len(cc)}

forwardChecking(assignment, csp, var, value) ==
    LET inferences == forwardChecking_inferences(assignment, csp, var, value)
        cc == concerned_constraints(csp, var)
        r == ForwardCheckingLoop(assignment.varDomains, PairsToList(inferences), inferences)
    IN [ok |-> r.ok, varDomains |-> r.varDomains, inferences |-> r.inferences,
        calls |-> {[fn |-> "forwardChecking", c |-> cc[i], arg1 |-> var,
                    arg2 |-> otherVariable(cc[i], var)] :
                      i \in {j \in 1..Len(cc) :
                                assignment.varDomains[otherVariable(cc[j], var)] # {}}}]

\* revise: [ok, varDomains, inferences]
revise(domains, var1, var2, constraint) ==
    LET inferences == {<<var2, val2>> : val2 \in
                          {v \in domains[var2] :
                              ~(\E val1 \in domains[var1] : isSatisfied(constraint, val1, v))}}
    IN IF Cardinality(inferences) = Cardinality(domains[var2])
       THEN [ok |-> FALSE, varDomains |-> domains, inferences |-> {}]
       ELSE [ok |-> TRUE, varDomains |-> RemoveInferences(domains, inferences),
             inferences |-> inferences]

\* the isSatisfied evaluations of revise(var1, var2, constraint)
revise_calls(domains, var1, var2, constraint) ==
    IF domains[var1] # {} /\ domains[var2] # {}
    THEN {[fn |-> "revise", c |-> constraint, arg1 |-> var1, arg2 |-> var2]}
    ELSE {}

\* util.Queue: push at the back, pop from the front
QueuePush(queue, item) == Append(queue, item)
QueueFront(queue) == Head(queue)
QueuePop(queue) == Tail(queue)

RECURSIVE PushAll(_, _)
PushAll(queue, items) ==
    IF items = <<>> THEN queue ELSE PushAll(QueuePush(queue, Head(items)), Tail(items))

\* the arcs (var, other, constraint) of every constraint touching var
ArcsFrom(csp, var) ==
    LET cc == concerned_constraints(csp, var)
    IN [i \in 1..Len(cc) |-> <<var, otherVariable(cc[i], var), cc[i]>>]

RECURSIVE BothDirections(_)
\* the arcs (var1, var2, c), (var2, var1, c) of every binary constraint
BothDirections(cs) ==
    IF cs = <<>> THEN <<>>
    ELSE << <<Head(cs).var1, Head(cs).var2, Head(cs)>>,
            <<Head(cs).var2, Head(cs).var1, Head(cs)>> >> \o BothDirections(Tail(cs))

InitialQueue(csp, var, initialQueue) ==
    IF initialQueue THEN PushAll(<<>>, BothDirections(csp.binaryConstraints))
    ELSE PushAll(<<>>, ArcsFrom(csp, var))

\* (the accumulated inferences of a failed call left out of the domains)
MacOnFailureNoRestore(domains, inferences) == domains

\* lines 630-633: revise returned None; every inference accumulated so far is
\* added back
MacOnFailure(domains, inferences) == AddInferences(domains, inferences)

\* (the inferences of the latest revision only)
AccumulateLatest(inferences, inference) == inference

\* line 637: inferences |= inference
Accumulate(inferences, inference) == inferences \cup inference

\* (a pruned variable whose arcs are not put back on the queue)
RequeueNothing(csp, queue, var2) == queue

\* lines 634-636: revise pruned var2; the arcs from var2 are pushed
Requeue(csp, queue, var2) == PushAll(queue, ArcsFrom(csp, var2))

RECURSIVE MacLoop(_, _, _, _, _)

\* lines 628-637: one iteration of the loop, on a queue that is not empty
MacBody(csp, queue, domains, inferences, calls) ==
    LET arc == QueueFront(queue)
        inference == revise(domains, arc[1], arc[2], arc[3])
        calls2 == calls \cup revise_calls(domains, arc[1], arc[2], arc[3])
    IN IF ~inference.ok
       THEN [ok |-> FALSE, varDomains |-> MacOnFailure(domains, inferences),
             inferences |-> {}, calls |-> calls2]
       ELSE IF inference.inferences # {}
            THEN MacLoop(csp, Requeue(csp, QueuePop(queue), arc[2]),
                         inference.varDomains,
                         Accumulate(inferences, inference.inferences), calls2)
            ELSE MacLoop(csp, QueuePop(queue), inference.varDomains, inferences, calls2)

\* line 627: while not queue.isEmpty(); every iteration starts from the values
\* of the loop's variables
MacLoop(csp, queue, domains, inferences, calls) ==
    IF queue = <<>>
    THEN [ok |-> TRUE, varDomains |-> domains, inferences |-> inferences, calls |-> calls]
    ELSE CHOOSE r \in {MacBody(csp, q, d, i, c) :
                          q \in {queue}, d \in {domains}, i \in {inferences}, c \in {calls}} : TRUE

maintainArcConsistency(assignment, csp, var, value, initialQueue) ==
    MacLoop(csp, InitialQueue(csp, var, initialQueue), assignment.varDomains, {}, {})

AC3(assignment, csp) == maintainArcConsistency(assignment, csp, None, None, TRUE)

RECURSIVE MacRevisions(_, _, _)
\* the revise calls the loop of maintainArcConsistency makes, in order, each
\* with the domains it starts from: [domains, var1, var2, constraint]
MacRevisions(csp, queue, domains) ==
    IF queue = <<>> THEN <<>>
    ELSE LET arc == QueueFront(queue)
             inference == revise(domains, arc[1], arc[2], arc[3])
             this == [domains |-> domains, var1 |-> arc[1], var2 |-> arc[2],
                      constraint |-> arc[3]]
         IN IF ~inference.ok THEN <<this>>
            ELSE IF inference.inferences # {}
                 THEN <<this>> \o MacRevisions(csp, Requeue(csp, QueuePop(queue), arc[2]),
                                               inference.varDomains)
                 ELSE <<this>> \o MacRevisions(csp, QueuePop(queue), inference.varDomains)

\* inferenceMethod(assignment, csp, var, value)
Infer(method, assignment, csp, var, value) ==
    IF method = "forwardChecking" THEN forwardChecking(assignment, csp, var, value)
    ELSE IF method = "maintainArcConsistency"
         THEN maintainArcConsistency(assignment, csp, var, value, FALSE)
         ELSE noInferences(assignment, csp, var, value)

\* selectVariableMethod(assignment, csp)
SelectVariable(method, assignment, csp) ==
    IF method = "minimumRemainingValuesHeuristic"
    THEN minimumRemainingValuesHeuristic(assignment, csp)
    ELSE chooseFirstVariable(assignment, csp)

\* orderValuesMethod(assignment, csp, var)
OrderValuesBy(method, assignment, csp, var) ==
    IF method = "leastConstrainingValuesHeuristic"
    THEN leastConstrainingValuesHeuristic(assignment, csp, var)
    ELSE orderValues(assignment, csp, var)

(***************************************************************************)
(* The program state.                                                      *)
(*   csp, assignment : the two objects solve works on                      *)
(*   orderValuesMethod, selectVariableMethod, inferenceMethod, useAC3 :    *)
(*       the arguments of solve                                            *)
(*   pc     : where solve is                                               *)
(*   stack  : the active calls of recursiveBacktrackingWithInferences,     *)
(*            the innermost last; the fields entry and before of a frame   *)
(*            are history (the assignment when the call was entered and    *)
(*            when the current candidate was about to be assigned)         *)
(*   ret    : what the call that just returned gave back                   *)
(*   result : what solve returned                                          *)
(*   last   : history of the last step, read by no action: the propagation *)
(*            call it made (op) and its arguments (var, value), the        *)
(*            domains before it (pre), its outcome (ok, inferences), its   *)
(*            isSatisfied evaluations (calls), whether it took its arcs in *)
(*            queue order (fifo), and for a return the assignment the      *)
(*            returning call was entered with (entry)                      *)
(***************************************************************************)
VARIABLES csp, assignment, orderValuesMethod, selectVariableMethod,
          inferenceMethod, useAC3, pc, stack, ret, result, last

vars == <<csp, assignment, orderValuesMethod, selectVariableMethod,
          inferenceMethod, useAC3, pc, stack, ret, result, last>>

args == <<orderValuesMethod, selectVariableMethod, inferenceMethod, useAC3>>

OrderValuesMethods == {"orderValues", "leastConstrainingValuesHeuristic"}
SelectVariableMethods == {"chooseFirstVariable", "minimumRemainingValuesHeuristic"}
InferenceMethods == {"noInferences", "forwardChecking", "maintainArcConsistency"}

\* the binary constraints of the model: var1 is the earlier variable
BinaryConstraints ==
    {c \in [var1 : Vars, var2 : Vars, rel : Relations] : c.var1 < c.var2}

UnaryConstraints == [var : Vars, kind : UnaryKinds, val : Values]

\* the pairs of variables, in order
VarPairs ==
    LET ps == {p \in Vars \X Vars : p[1] < p[2]}
        RECURSIVE Lst(_)
        Lst(S) == IF S = {} THEN <<>>
                  ELSE LET p == CHOOSE x \in S : \A y \in S :
                                    x[1] < y[1] \/ (x[1] = y[1] /\ x[2] <= y[2])
                       IN <<p>> \o Lst(S \ {p})
    IN Lst(ps)

RECURSIVE ListsOver(_, _)
\* constraint lists: at most n constraints, listed pair by pair, at most one
\* constraint per pair of variables
ListsOver(pairs, n) ==
    IF pairs = <<>> \/ n = 0 THEN {<<>>}
    ELSE ListsOver(Tail(pairs), n)
         \cup {<<c>> \o rest :
                  c \in {x \in BinaryConstraints : <<x.var1, x.var2>> = Head(pairs)},
                  rest \in ListsOver(Tail(pairs), n - 1)}

BinaryLists == ListsOver(VarPairs, MaxBin)

RECURSIVE UnaryListsOfLen(_)
UnaryListsOfLen(n) ==
    IF n = 0 THEN {<<>>}
    ELSE {<<c>> \o rest : c \in UnaryConstraints, rest \in UnaryListsOfLen(n - 1)}

UnaryLists == UNION {UnaryListsOfLen(n) : n \in 0..MaxUnary}

NoAssignment ==
    [varDomains |-> [var \in Vars |-> {}], assignedValues |-> [var \in Vars |-> None]]

\* history of a step that ran no propagation
Quiet == [op |-> "-", var |-> None, value |-> None, pre |-> NoAssignment.varDomains,
          ok |-> TRUE, inferences |-> {}, calls |-> {}, entry |-> NoAssignment,
          fifo |-> TRUE]

\* The problems of the model: any non-empty domain per variable and no unary
\* constraint; or one non-empty domain shared by all variables and at most
\* one unary constraint; or one domain, possibly empty, shared by all
\* variables, no binary constraint and any list of unary constraints.
Problems ==
    {[varDomains |-> d, binaryConstraints |-> b, unaryConstraints |-> u] :
        d \in [Vars -> (SUBSET Values) \ {{}}], b \in BinaryLists,
        u \in {<<>>}}
    \cup
    {[varDomains |-> [var \in Vars |-> D], binaryConstraints |-> b, unaryConstraints |-> u] :
        D \in (SUBSET Values) \ {{}}, b \in BinaryLists,
        u \in UnaryListsOfLen(0) \cup UnaryListsOfLen(1)}
    \cup
    {[varDomains |-> [var \in Vars |-> D], binaryConstraints |-> b, unaryConstraints |-> u] :
        D \in SUBSET Values, b \in {<<>>}, u \in UnaryLists}

\* A constructed ConstraintSatisfactionProblem and the arguments of a solve
\* call that has not started.
Init ==
    /\ csp \in Problems
    /\ assignment = NoAssignment
    /\ orderValuesMethod \in OrderValuesMethods
    /\ selectVariableMethod \in SelectVariableMethods
    /\ inferenceMethod \in InferenceMethods
    /\ useAC3 \in BOOLEAN
    /\ pc = "solve"
    /\ stack = <<>>
    /\ ret = "none"
    /\ result = [kind |-> "pending", values |-> [var \in Vars |-> None]]
    /\ last = Quiet

\* (the CSP and the Assignment sharing their domain sets)
CspDomainsAfterWriteShared(cspDomains, newDomains) == newDomains

\* The sets of csp.varDomains after a write to assignment.varDomains:
\* Assignment.__init__ copies every domain (set(csp.varDomains[var])), so the
\* CSP's own sets are other objects and keep their elements.
CspDomainsAfterWrite(cspDomains, newDomains) == cspDomains

\* assignment.varDomains becomes newDomains
WriteDomains(a, newDomains) ==
    /\ assignment' = [a EXCEPT !.varDomains = newDomains]
    /\ csp' = [csp EXCEPT !.varDomains = CspDomainsAfterWrite(csp.varDomains, newDomains)]

\* solve, lines 680-684: build the Assignment, eliminate by unary constraints
SolveEliminateUnary ==
    /\ pc = "solve"
    /\ \E a \in {NewAssignment(csp)} :
       \E r \in {eliminateUnaryConstraints(a, csp)} :
          /\ WriteDomains(a, r.varDomains)
          /\ last' = [Quiet EXCEPT !.op = "eliminateUnaryConstraints",
                                   !.pre = a.varDomains, !.ok = r.ok]
          /\ IF ~r.ok THEN pc' = "done" /\ result' = NoneResult
             ELSE pc' = "ac3" /\ result' = result
    /\ UNCHANGED <<args, stack, ret>>

\* solve, lines 686-689: the optional AC3 pass
SolveAC3 ==
    /\ pc = "ac3"
    /\ useAC3
    /\ \E r \in {AC3(assignment, csp)} :
          /\ WriteDomains(assignment, r.varDomains)
          /\ last' = [Quiet EXCEPT !.op = "AC3", !.pre = assignment.varDomains,
                                   !.ok = r.ok, !.inferences = r.inferences,
                                   !.calls = r.calls]
          /\ IF ~r.ok THEN pc' = "done" /\ result' = NoneResult
             ELSE pc' = "call" /\ result' = result
    /\ UNCHANGED <<args, stack, ret>>

SolveSkipAC3 ==
    /\ pc = "ac3"
    /\ ~useAC3
    /\ pc' = "call"
    /\ last' = Quiet
    /\ UNCHANGED <<csp, assignment, args, stack, ret, result>>

\* The inference method of the call that is entered when depth calls are
\* active: solve passes inferenceMethod to the outermost call, and the call
\* made from inside the loop is recursiveBacktracking, which passes
\* noInferences.
MethodAtDepth(depth) == IF depth = 0 THEN inferenceMethod ELSE "noInferences"

\* recursiveBacktrackingWithInferences, lines 522-523: the call entered finds
\* the assignment complete
EnterComplete ==
    /\ pc = "call"
    /\ isComplete(assignment)
    /\ pc' = "return"
    /\ ret' = "success"
    /\ last' = [Quiet EXCEPT !.op = "return", !.entry = assignment]
    /\ UNCHANGED <<csp, assignment, args, stack, result>>

\* lines 525-528: the variable and its consistent values are chosen
EnterExpand ==
    /\ pc = "call"
    /\ ~isComplete(assignment)
    /\ \E next_variable \in {SelectVariable(selectVariableMethod, assignment, csp)} :
       \E ordered \in {OrderValuesBy(orderValuesMethod, assignment, csp, next_variable)} :
       \E consistent_values \in
             {SelectSeq(ordered, LAMBDA value : consistent(assignment, csp, next_variable, value))} :
          /\ stack' = Append(stack,
                 [next_variable |-> next_variable,
                  consistent_values |-> consistent_values,
                  i |-> 1,
                  method |-> MethodAtDepth(Len(stack)),
                  current_value |-> None,
                  ok |-> FALSE,
                  inferences |-> {},
                  entry |-> assignment,
                  before |-> assignment])
          /\ last' = [Quiet EXCEPT !.op = "consistent",
                         !.calls = IF ordered = <<>> THEN {}
                                   ELSE consistent_calls(assignment, csp, next_variable)]
    /\ pc' = "loop"
    /\ UNCHANGED <<csp, assignment, args, ret, result>>

Top == stack[Len(stack)]
SetTop(f) == [stack EXCEPT ![Len(stack)] = f]

\* lines 529-534: the next candidate is assigned and the inference method run
TryCandidate ==
    /\ pc = "loop"
    /\ Top.i <= Len(Top.consistent_values)
    /\ LET f == Top
           value == f.consistent_values[f.i]
           a == [assignment EXCEPT !.assignedValues[f.next_variable] = value]
       IN \E r \in {Infer(f.method, a, csp, f.next_variable, value)} :
          /\ WriteDomains(a, r.varDomains)
          /\ last' = [Quiet EXCEPT !.op = f.method, !.var = f.next_variable,
                                   !.value = value, !.pre = assignment.varDomains,
                                   !.ok = r.ok, !.inferences = r.inferences,
                                   !.calls = r.calls]
          /\ stack' = SetTop([f EXCEPT
                                 !.current_value = assignment.assignedValues[f.next_variable],
                                 !.ok = r.ok,
                                 !.inferences = r.inferences,
                                 !.before = assignment])
          /\ pc' = IF r.ok THEN "call" ELSE "revert"
    /\ UNCHANGED <<args, ret, result>>

\* (the inferences of a failed candidate left out of the domains)
RevertDomainsNoRestore(domains, ok, inferences) == domains

\* what lines 538-540 leave in assignment.varDomains
RevertDomains(domains, ok, inferences) ==
    IF ok THEN AddInferences(domains, inferences) ELSE domains

\* what line 537 leaves in assignment.assignedValues[next_variable]
RevertValue(current_value, value) == current_value

\* (the same candidate again)
NextCandidateSame(i) == i

\* line 529: the for loop moves on to the next candidate
NextCandidate(i) == i + 1

\* lines 537-540: the candidate failed; unassign and add the inferences back
Revert ==
    /\ pc = "revert"
    /\ LET f == Top
           a == [assignment EXCEPT !.assignedValues[f.next_variable] =
                    RevertValue(f.current_value, assignment.assignedValues[f.next_variable])]
       IN /\ WriteDomains(a, RevertDomains(assignment.varDomains, f.ok, f.inferences))
          /\ stack' = SetTop([f EXCEPT !.i = NextCandidate(f.i)])
    /\ pc' = "loop"
    /\ last' = [Quiet EXCEPT !.op = "revert"]
    /\ UNCHANGED <<args, ret, result>>

\* line 541: every candidate failed
Exhausted ==
    /\ pc = "loop"
    /\ Top.i > Len(Top.consistent_values)
    /\ last' = [Quiet EXCEPT !.op = "return", !.entry = Top.entry]
    /\ stack' = SubSeq(stack, 1, Len(stack) - 1)
    /\ ret' = "failure"
    /\ pc' = "return"
    /\ UNCHANGED <<csp, assignment, args, result>>

\* lines 534-536: the recursive call returned to the loop
ReturnToLoop ==
    /\ pc = "return"
    /\ stack # <<>>
    /\ IF ret = "success"
       THEN /\ stack' = SubSeq(stack, 1, Len(stack) - 1)
            /\ pc' = "return"
       ELSE /\ stack' = stack
            /\ pc' = "revert"
    /\ last' = [last EXCEPT !.op = "returned"]
    /\ UNCHANGED <<csp, assignment, args, ret, result>>

\* solve, lines 698-701: the outermost call returned
SolveReturn ==
    /\ pc = "return"
    /\ stack = <<>>
    /\ pc' = "done"
    /\ result' = IF ret = "success" THEN extractSolution(assignment) ELSE NoneResult
    /\ last' = [last EXCEPT !.op = "returned"]
    /\ UNCHANGED <<csp, assignment, args, stack, ret>>

Next ==
    \/ SolveEliminateUnary
    \/ SolveAC3
    \/ SolveSkipAC3
    \/ EnterComplete
    \/ EnterExpand
    \/ TryCandidate
    \/ Revert
    \/ Exhausted
    \/ ReturnToLoop
    \/ SolveReturn

Spec == Init /\ [][Next]_vars

(***************************************************************************)
(* Direct calls.  forwardChecking, maintainArcConsistency and AC3 are      *)
(* module-level functions: CallSpec calls each of them once on an          *)
(* Assignment built over a CSP, some of whose variables a caller has       *)
(* assigned.  A maintainArcConsistency call in progress is a frame         *)
(* [var, value, initialQueue, queue, inferences, start, fifo] on the       *)
(* stack, start and fifo being history (the domains when the call started, *)
(* and whether every arc so far was taken from the front of the queue).    *)
(* The arcs are taken from the work queue in any order, the order of       *)
(* util.Queue being one of them.                                           *)
(***************************************************************************)
\* the assigned values a caller can have set: values of the working domains
\* that satisfy the binary constraints between the assigned variables
CallAssignedValues(c) ==
    {av \in [Vars -> {None} \cup Values] :
        /\ \A var \in Vars : av[var] = None \/ av[var] \in c.varDomains[var]
        /\ \A i \in 1..Len(c.binaryConstraints) :
              LET b == c.binaryConstraints[i]
              IN (av[b.var1] # None /\ av[b.var2] # None)
                    => isSatisfied(b, av[b.var1], av[b.var2])}

InitCall ==
    /\ csp \in {c \in Problems : c.unaryConstraints = <<>>}
    /\ assignment \in {[NewAssignment(csp) EXCEPT !.assignedValues = av] :
                          av \in CallAssignedValues(csp)}
    /\ orderValuesMethod = "orderValues"
    /\ selectVariableMethod = "chooseFirstVariable"
    /\ inferenceMethod = "noInferences"
    /\ useAC3 = FALSE
    /\ pc = "direct"
    /\ stack = <<>>
    /\ ret = "none"
    /\ result = [kind |-> "pending", values |-> [var \in Vars |-> None]]
    /\ last = Quiet

\* forwardChecking(assignment, csp, var, value), var having just been assigned
CallForwardChecking ==
    /\ pc = "direct"
    /\ \E var \in Vars :
          /\ isAssigned(assignment, var)
          /\ LET value == assignment.assignedValues[var]
             IN \E r \in {forwardChecking(assignment, csp, var, value)} :
                /\ WriteDomains(assignment, r.varDomains)
                /\ last' = [Quiet EXCEPT !.op = "forwardChecking", !.var = var,
                                         !.value = value, !.pre = assignment.varDomains,
                                         !.ok = r.ok, !.inferences = r.inferences,
                                         !.calls = r.calls]
                /\ ret' = IF r.ok THEN "success" ELSE "failure"
    /\ pc' = "returned"
    /\ UNCHANGED <<args, stack, result>>

\* lines 616-625 of a call maintainArcConsistency(assignment, csp, var, value)
CallMaintainArcConsistency ==
    /\ pc = "direct"
    /\ \E var \in Vars :
          /\ isAssigned(assignment, var)
          /\ stack' = <<[var |-> var, value |-> assignment.assignedValues[var],
                         initialQueue |-> FALSE,
                         queue |-> InitialQueue(csp, var, FALSE),
                         inferences |-> {},
                         start |-> assignment.varDomains,
                         fifo |-> TRUE]>>
    /\ pc' = "mac"
    /\ last' = Quiet
    /\ UNCHANGED <<csp, assignment, args, ret, result>>

\* lines 616-622 of the call AC3 makes, before any variable is assigned
CallAC3 ==
    /\ pc = "direct"
    /\ \A var \in Vars : ~isAssigned(assignment, var)
    /\ stack' = <<[var |-> None, value |-> None,
                   initialQueue |-> TRUE,
                   queue |-> InitialQueue(csp, None, TRUE),
                   inferences |-> {},
                   start |-> assignment.varDomains,
                   fifo |-> TRUE]>>
    /\ pc' = "mac"
    /\ last' = Quiet
    /\ UNCHANGED <<csp, assignment, args, ret, result>>

\* the name the call in progress is recorded under
MacOp(f) == IF f.initialQueue THEN "AC3" ELSE "maintainArcConsistency"

\* the queue without its i-th arc
QueueWithout(queue, i) == SubSeq(queue, 1, i - 1) \o SubSeq(queue, i + 1, Len(queue))

\* lines 627-636: one turn of the loop, on any arc of the queue
MacStep ==
    /\ pc = "mac"
    /\ Top.queue # <<>>
    /\ \E i \in 1..Len(Top.queue) :
          LET f == Top
              arc == f.queue[i]
              rest == QueueWithout(f.queue, i)
              fifo == f.fifo /\ i = 1
          IN \E inference \in {revise(assignment.varDomains, arc[1], arc[2], arc[3])} :
             IF ~inference.ok
             THEN /\ WriteDomains(assignment, MacOnFailure(assignment.varDomains, f.inferences))
                  /\ stack' = <<>>
                  /\ pc' = "returned"
                  /\ ret' = "failure"
                  /\ last' = [Quiet EXCEPT !.op = MacOp(f), !.var = f.var,
                                           !.value = f.value, !.pre = f.start,
                                           !.ok = FALSE, !.fifo = fifo]
             ELSE /\ WriteDomains(assignment, inference.varDomains)
                  /\ stack' = SetTop([f EXCEPT
                         !.queue = IF inference.inferences # {}
                                   THEN Requeue(csp, rest, arc[2]) ELSE rest,
                         !.inferences = Accumulate(f.inferences, inference.inferences),
                         !.fifo = fifo])
                  /\ pc' = "mac"
                  /\ ret' = ret
                  /\ last' = Quiet
    /\ UNCHANGED <<args, result>>

\* line 639: the queue is empty
MacReturn ==
    /\ pc = "mac"
    /\ Top.queue = <<>>
    /\ stack' = <<>>
    /\ pc' = "returned"
    /\ ret' = "success"
    /\ last' = [Quiet EXCEPT !.op = MacOp(Top), !.var = Top.var, !.value = Top.value,
                             !.pre = Top.start, !.ok = TRUE,
                             !.inferences = Top.inferences, !.fifo = Top.fifo]
    /\ UNCHANGED <<csp, assignment, args, result>>

NextCall ==
    \/ CallForwardChecking
    \/ CallMaintainArcConsistency
    \/ CallAC3
    \/ MacStep
    \/ MacReturn

CallSpec == InitCall /\ [][NextCall]_vars

(***************************************************************************)
(* Both kinds of call, each running to its end: the program is sequential, *)
(* so a step that can be taken is taken.  The calls are made on the        *)
(* problems without unary constraints.                                     *)
(***************************************************************************)
InitAny ==
    /\ Init \/ InitCall
    /\ csp.unaryConstraints = <<>>

NextAny == Next \/ NextCall

FairSpec == InitAny /\ [][NextAny]_vars /\ WF_vars(NextAny)

(***************************************************************************)
(* What the properties are stated with.                                    *)
(***************************************************************************)
\* the complete assignments over the value universe
Complete == [Vars -> Values]

\* s satisfies every binary constraint: value1 is var1's, value2 is var2's
SatisfiesBinary(c, s) ==
    \A i \in 1..Len(c.binaryConstraints) :
        LET b == c.binaryConstraints[i] IN isSatisfied(b, s[b.var1], s[b.var2])

SatisfiesUnary(c, s) ==
    \A i \in 1..Len(c.unaryConstraints) :
        LET u == c.unaryConstraints[i] IN UnaryIsSatisfied(u, s[u.var])

\* s takes every value from the given domains
Within(domains, s) == \A var \in Vars : s[var] \in domains[var]

IsSolution(c, s) == Within(c.varDomains, s) /\ SatisfiesUnary(c, s) /\ SatisfiesBinary(c, s)

Solvable(c) == \E s \in Complete : IsSolution(c, s)

\* the binary constraint b holds when var has value and its other variable has other
HoldsFor(b, var, value, other) ==
    IF var = b.var1 THEN isSatisfied(b, value, other) ELSE isSatisfied(b, other, value)

\* the variable the call about to be entered selects
Selected == SelectVariable(selectVariableMethod, assignment, csp)

\* a call of the driver is about to choose a variable and its values
Expanding == pc = "call" /\ ~isComplete(assignment)

(***************************************************************************)
(* C1  Soundness: whenever solve returns a mapping, the mapping gives      *)
(* every variable a value, every value satisfies every unary constraint on *)
(* its variable, and every binary constraint is satisfied by the values of *)
(* its var1 and var2.                                                      *)
(***************************************************************************)
C1_Soundness ==
    (pc = "done" /\ result.kind = "mapping") =>
        /\ \A var \in Vars : result.values[var] # None
        /\ SatisfiesUnary(csp, result.values)
        /\ SatisfiesBinary(csp, result.values)

(***************************************************************************)
(* C2  Completeness: if the CSP has an assignment satisfying all unary and *)
(* binary constraints, solve returns a mapping, not the no-solution value, *)
(* under every combination of strategies.                                  *)
(***************************************************************************)
C2_Completeness ==
    (pc = "done" /\ Solvable(csp)) => result.kind = "mapping"

(***************************************************************************)
(* C3  Exact undo: after a candidate value fails, the domains and the      *)
(* assigned values are what they were immediately before that candidate    *)
(* was tentatively assigned; a driver call that returns failure leaves the *)
(* assignment as it was when the call was entered.                         *)
(***************************************************************************)
C3_ExactUndo ==
    /\ (pc = "loop" /\ Top.i > 1) => assignment = Top.before
    /\ (pc = "return" /\ ret = "failure") => assignment = last.entry

\* a candidate whose propagation pruned a domain failed in the search below
\* it and has been undone
C3_Witness ==
    /\ pc = "loop"
    /\ Top.i > 1
    /\ Top.ok
    /\ Top.inferences # {}

(***************************************************************************)
(* C4  When the CSP has no satisfying assignment, solve returns the        *)
(* no-solution value and not a mapping.                                    *)
(***************************************************************************)
C4_UnsatisfiableGivesNone ==
    (pc = "done" /\ ~Solvable(csp)) => result.kind = "None"

(***************************************************************************)
(* C5  Arc-consistency soundness: a (variable, value) pair that AC3 or     *)
(* maintainArcConsistency removed occurs in no complete assignment that    *)
(* satisfies all binary constraints and takes every value from the working *)
(* domains as they were when the call started.                             *)
(***************************************************************************)
C5_ArcConsistencySound ==
    (last.op \in {"AC3", "maintainArcConsistency"}) =>
        \A p \in last.inferences :
            ~(\E s \in Complete :
                 /\ s[p[1]] = p[2]
                 /\ Within(last.pre, s)
                 /\ SatisfiesBinary(csp, s))

(***************************************************************************)
(* C6  otherVariable(var) with a variable that is neither var1 nor var2 of *)
(* the constraint never returns one of the constraint's variables.         *)
(***************************************************************************)
C6_OtherVariableRejectsStranger ==
    \A i \in 1..Len(csp.binaryConstraints) :
        LET c == csp.binaryConstraints[i]
        IN \A var \in Vars \ {c.var1, c.var2} :
              otherVariable(c, var) \notin {c.var1, c.var2}

(***************************************************************************)
(* C7  consistent(assignment, csp, var, value) is true if and only if      *)
(* every binary constraint that touches var and whose other variable has   *)
(* an assigned value is satisfied by value together with that value.       *)
(***************************************************************************)
C7_ConsistentIff ==
    Expanding =>
        \A value \in assignment.varDomains[Selected] :
            consistent(assignment, csp, Selected, value)
            <=> \A i \in 1..Len(csp.binaryConstraints) :
                   LET c == csp.binaryConstraints[i]
                       other == IF Selected = c.var1 THEN c.var2 ELSE c.var1
                   IN (Selected \in {c.var1, c.var2} /\ assignment.assignedValues[other] # None)
                        => HoldsFor(c, Selected, value, assignment.assignedValues[other])

(***************************************************************************)
(* C8  Whenever consistent, forwardChecking or revise evaluates            *)
(* isSatisfied(value1, value2) of a binary constraint, value1 is a value   *)
(* of the constraint's var1 and value2 a value of its var2.                *)
(***************************************************************************)
C8_ArgumentOrder ==
    \A call \in last.calls : call.arg1 = call.c.var1 /\ call.arg2 = call.c.var2

EliminationCount(a, c, var, v) ==
    Cardinality({p \in (1..Len(c.binaryConstraints)) \X Values :
                    LET b == c.binaryConstraints[p[1]]
                        other == IF var = b.var1 THEN b.var2 ELSE b.var1
                    IN /\ var \in {b.var1, b.var2}
                       /\ p[2] \in a.varDomains[other]
                       /\ ~HoldsFor(b, var, v, p[2])})

C10_LeastConstrainingOrder ==
    (Expanding /\ orderValuesMethod = "leastConstrainingValuesHeuristic") =>
        LET out == leastConstrainingValuesHeuristic(assignment, csp, Selected)
        IN /\ Range(out) = assignment.varDomains[Selected]
           /\ Len(out) = Cardinality(assignment.varDomains[Selected])
           /\ \A i \in 1..Len(out) : \A j \in i..Len(out) :
                 EliminationCount(assignment, csp, Selected, out[i])
                    <= EliminationCount(assignment, csp, Selected, out[j])

(***************************************************************************)
(* C11  In every invocation of the backtracking driver started by solve    *)
(* with forwardChecking or maintainArcConsistency, the recursive ones at   *)
(* every depth included, the inference run after a candidate value is      *)
(* tentatively assigned is the configured strategy.                        *)
(***************************************************************************)
C11_ConfiguredInferenceAtEveryDepth ==
    (last.op \in InferenceMethods
        /\ inferenceMethod \in {"forwardChecking", "maintainArcConsistency"})
    => last.op = inferenceMethod

\* the revise calls of the propagation call the last step made
LastRevisions ==
    IF last.op = "AC3" THEN MacRevisions(csp, InitialQueue(csp, None, TRUE), last.pre)
    ELSE IF last.op = "maintainArcConsistency"
         THEN MacRevisions(csp, InitialQueue(csp, last.var, FALSE), last.pre)
         ELSE <<>>

\* the values of var2 that no value of var1 supports under constraint c
Unsupported(domains, var1, var2, c) ==
    {v2 \in domains[var2] : ~(\E v1 \in domains[var1] : HoldsFor(c, var1, v1, v2))}

(***************************************************************************)
(* C12  On success, revise(var1, var2, constraint) removes from var2's     *)
(* working domain exactly the values v2 for which no value v1 of var1's    *)
(* working domain satisfies the constraint with var1 = v1 and var2 = v2,   *)
(* returns exactly those (var2, v2) pairs, and leaves every other domain   *)
(* unchanged.                                                              *)
(***************************************************************************)
C12_ReviseExact ==
    \A k \in 1..Len(LastRevisions) :
        LET rev == LastRevisions[k]
            r == revise(rev.domains, rev.var1, rev.var2, rev.constraint)
            gone == Unsupported(rev.domains, rev.var1, rev.var2, rev.constraint)
        IN r.ok =>
              /\ r.varDomains[rev.var2] = rev.domains[rev.var2] \ gone
              /\ r.inferences = {<<rev.var2, v2>> : v2 \in gone}
              /\ \A var \in Vars \ {rev.var2} : r.varDomains[var] = rev.domains[var]

(***************************************************************************)
(* C13  When maintainArcConsistency, in either seeding mode (hence also    *)
(* AC3), fails because a revision would remove all of a variable's domain, *)
(* every working domain is what it was when the call started: the failing  *)
(* revision mutates nothing and the removals accumulated earlier in the    *)
(* call are added back.                                                    *)
(***************************************************************************)
C13_MacFailureRestores ==
    (last.op \in {"AC3", "maintainArcConsistency"} /\ ~last.ok) =>
        /\ assignment.varDomains = last.pre
        /\ LET rev == LastRevisions[Len(LastRevisions)]
               r == revise(rev.domains, rev.var1, rev.var2, rev.constraint)
           IN ~r.ok /\ r.varDomains = rev.domains

\* a call that failed after an earlier revision of it had pruned a domain
C13_Witness ==
    /\ last.op \in {"AC3", "maintainArcConsistency"}
    /\ ~last.ok
    /\ \E k \in 1..Len(LastRevisions) :
          LET rev == LastRevisions[k]
          IN revise(rev.domains, rev.var1, rev.var2, rev.constraint).inferences # {}

\* the variable and the value of the candidate the last step assigned
LastVar == last.var
LastValue == last.value

\* the pairs the forwardChecking call of the last step set out to remove
LastForwardInferences ==
    forwardChecking_inferences([assignment EXCEPT !.varDomains = last.pre],
                               csp, LastVar, LastValue)

\* the pairs that were in a domain before the last step and are not after it
Removed == {p \in Vars \X Values : p[2] \in last.pre[p[1]] \ assignment.varDomains[p[1]]}

(***************************************************************************)
(* C14  When forwardChecking(assignment, csp, var, value) would empty the  *)
(* working domain of an affected variable it returns the failure value and *)
(* every working domain is what it was when the call started; otherwise it *)
(* returns exactly the set of (variable, value) pairs it removed.          *)
(***************************************************************************)
C14_ForwardCheckingFailureRestores ==
    last.op = "forwardChecking" =>
        LET wouldEmpty ==
                \E var \in Vars :
                    /\ last.pre[var] # {}
                    /\ \A v \in last.pre[var] : <<var, v>> \in LastForwardInferences
        IN /\ wouldEmpty => (~last.ok /\ assignment.varDomains = last.pre)
           /\ ~wouldEmpty => (last.ok /\ last.inferences = Removed)

\* a call that failed after it had pruned, without emptying it, the domain of
\* an earlier variable
C14_Witness ==
    /\ last.op = "forwardChecking"
    /\ ~last.ok
    /\ \E var \in Vars : \E later \in Vars :
          /\ var < later
          /\ \E v \in last.pre[var] : <<var, v>> \in LastForwardInferences
          /\ \E v \in last.pre[var] : <<var, v>> \notin LastForwardInferences
          /\ \A v \in last.pre[later] : <<later, v>> \in LastForwardInferences

\* the values of the other variable that a binary constraint between var and
\* other rejects together with value for var
Rejected(c, var, value, other) ==
    {w \in Values :
        \E i \in 1..Len(c.binaryConstraints) :
            LET b == c.binaryConstraints[i]
            IN /\ {b.var1, b.var2} = {var, other}
               /\ ~HoldsFor(b, var, value, w)}

\* var and other are the two sides of a binary constraint
Constrained(c, var, other) ==
    \E i \in 1..Len(c.binaryConstraints) :
        {c.binaryConstraints[i].var1, c.binaryConstraints[i].var2} = {var, other}

(***************************************************************************)
(* C15  A successful forwardChecking(assignment, csp, var, value) changes  *)
(* only the working domains of variables that are unassigned and are the   *)
(* other side of a binary constraint touching var, and removes from each   *)
(* such domain exactly the values the constraint rejects together with     *)
(* value; the domains of assigned variables and of variables not           *)
(* constrained with var are unchanged.                                     *)
(***************************************************************************)
C15_ForwardCheckingFrame ==
    (last.op = "forwardChecking" /\ last.ok) =>
        \A other \in Vars \ {last.var} :
            IF ~isAssigned(assignment, other) /\ Constrained(csp, last.var, other)
            THEN assignment.varDomains[other]
                    = last.pre[other] \ Rejected(csp, last.var, last.value, other)
            ELSE assignment.varDomains[other] = last.pre[other]

\* the domains are arc consistent in both directions of every binary
\* constraint of c
ArcConsistent(c, domains) ==
    \A i \in 1..Len(c.binaryConstraints) :
        LET b == c.binaryConstraints[i]
        IN /\ \A v1 \in domains[b.var1] : \E v2 \in domains[b.var2] : isSatisfied(b, v1, v2)
           /\ \A v2 \in domains[b.var2] : \E v1 \in domains[b.var1] : isSatisfied(b, v1, v2)

(***************************************************************************)
(* C16  After AC3 returns success the working domains are arc consistent   *)
(* in both directions of every binary constraint: every value remaining in *)
(* the domain of one side has a value remaining in the domain of the other *)
(* side with which the constraint is satisfied.                            *)
(***************************************************************************)
C16_AC3ArcConsistent ==
    (last.op = "AC3" /\ last.ok) => ArcConsistent(csp, assignment.varDomains)

\* what the call of the last step gives when it takes its arcs in the order
\* of the queue
InQueueOrder ==
    MacLoop(csp, InitialQueue(csp, last.var, last.op = "AC3"), last.pre, {}, {})

(***************************************************************************)
(* C17  The outcome of AC3 / maintainArcConsistency does not depend on the *)
(* order in which the arcs are taken from the work queue: from the same    *)
(* starting domains every order gives the same success or failure and, on  *)
(* success, the same final working domains and the same returned set of    *)
(* inferences.                                                             *)
(***************************************************************************)
C17_OrderIndependent ==
    (pc = "returned" /\ last.op \in {"AC3", "maintainArcConsistency"}) =>
        /\ last.ok = InQueueOrder.ok
        /\ last.ok => /\ assignment.varDomains = InQueueOrder.varDomains
                      /\ last.inferences = InQueueOrder.inferences

\* a maintainArcConsistency call that took an arc out of queue order,
\* succeeded, and pruned a variable that no constraint links to var: an arc
\* pushed during the call did the pruning
C17_Witness ==
    /\ pc = "returned"
    /\ last.op = "maintainArcConsistency"
    /\ ~last.fifo
    /\ last.ok
    /\ \E p \in last.inferences :
          p[1] # last.var /\ ~Constrained(csp, last.var, p[1])

(***************************************************************************)
(* C18  Inference records invert exactly: whenever forwardChecking or      *)
(* maintainArcConsistency returns successfully, the returned set is        *)
(* exactly the set of (variable, value) pairs that were in a working       *)
(* domain before the call and are not after it, so adding every returned   *)
(* pair back to its variable's domain gives the working domains of before  *)
(* the call.                                                               *)
(***************************************************************************)
C18_InferencesInvert ==
    (last.op \in {"forwardChecking", "maintainArcConsistency"} /\ last.ok) =>
        /\ last.inferences = Removed
        /\ AddInferences(assignment.varDomains, last.inferences) = last.pre

\* a successful maintainArcConsistency call whose returned pairs come from
\* more than one revision
C18_Witness ==
    /\ last.op = "maintainArcConsistency"
    /\ last.ok
    /\ Cardinality({p[1] : p \in last.inferences}) >= 2

\* forwardChecking called where the call of the last step was called
ForwardCheckingInstead ==
    forwardChecking([assignment EXCEPT !.varDomains = last.pre], csp, last.var, last.value)

(***************************************************************************)
(* C19  Forward checking is a one-hop special case of MAC: from the same   *)
(* Assignment and the same newly assigned (var, value), whenever           *)
(* maintainArcConsistency succeeds every pair that forwardChecking removes *)
(* is also removed by maintainArcConsistency, and after the call no value  *)
(* incompatible with value remains in the domain of an unassigned          *)
(* neighbour of var.                                                       *)
(***************************************************************************)
C19_ForwardCheckingWithinMac ==
    (last.op = "maintainArcConsistency" /\ last.ok) =>
        /\ ForwardCheckingInstead.inferences \subseteq last.inferences
        /\ \A other \in Vars \ {last.var} :
              (~isAssigned(assignment, other) /\ Constrained(csp, last.var, other))
              => assignment.varDomains[other]
                    \cap Rejected(csp, last.var, last.value, other) = {}

\* the values of var's original domain that satisfy every unary constraint
\* affecting var
Keeps(c, var) ==
    {v \in c.varDomains[var] :
        \A i \in 1..Len(c.unaryConstraints) :
            c.unaryConstraints[i].var = var => UnaryIsSatisfied(c.unaryConstraints[i], v)}

\* on success the working domains are the kept values; on failure solve
\* returns the no-solution value at once
EliminationOutcome ==
    /\ last.ok => \A var \in Vars : assignment.varDomains[var] = Keeps(csp, var)
    /\ ~last.ok => (pc = "done" /\ result.kind = "None")

(***************************************************************************)
(* C20  eliminateUnaryConstraints succeeds exactly when every variable     *)
(* keeps at least one value that satisfies all unary constraints affecting *)
(* it; on success each working domain is exactly the set of the original   *)
(* values that satisfy every unary constraint affecting the variable; on   *)
(* failure solve returns no-solution without running AC-3 or backtracking. *)
(***************************************************************************)
C20_UnaryEliminationExact ==
    last.op = "eliminateUnaryConstraints" =>
        /\ last.ok <=> \A var \in Vars : Keeps(csp, var) # {}
        /\ EliminationOutcome

\* The same with the variables whose domain is empty from the start left
\* aside: the elimination fails only by removing the last value of a domain.
NonEmpty_UnaryEliminationExact ==
    last.op = "eliminateUnaryConstraints" =>
        /\ last.ok <=> \A var \in Vars : csp.varDomains[var] = {} \/ Keeps(csp, var) # {}
        /\ EliminationOutcome

\* the number of binary constraints of c that reference var
References(c, var) ==
    Cardinality({i \in 1..Len(c.binaryConstraints) :
                    var \in {c.binaryConstraints[i].var1, c.binaryConstraints[i].var2}})

\* the unassigned variables
Unassigned == {var \in Vars : assignment.assignedValues[var] = None}

(***************************************************************************)
(* C21  minimumRemainingValuesHeuristic(assignment, csp), called when at   *)
(* least one variable is unassigned, returns an unassigned variable whose  *)
(* working domain is no larger than that of any other unassigned variable  *)
(* and which, among the unassigned variables of that minimal domain size,  *)
(* is referenced by at least as many binary constraints as any other.      *)
(***************************************************************************)
C21_MinimumRemainingValues ==
    (Expanding /\ selectVariableMethod = "minimumRemainingValuesHeuristic") =>
        LET chosen == minimumRemainingValuesHeuristic(assignment, csp)
            size(var) == Cardinality(assignment.varDomains[var])
        IN /\ chosen \in Unassigned
           /\ \A var \in Unassigned :
                 /\ size(chosen) <= size(var)
                 /\ size(var) = size(chosen) => References(csp, var) <= References(csp, chosen)

\* the heuristic is about to choose among unassigned variables of different
\* domain sizes, and two of the smallest size differ in their number of
\* constraints, the earlier one having fewer
C21_Witness ==
    /\ Expanding
    /\ selectVariableMethod = "minimumRemainingValuesHeuristic"
    /\ \E var \in Unassigned :
          Cardinality(assignment.varDomains[var])
             > Cardinality(assignment.varDomains[Selected])
    /\ \E var \in Unassigned :
          /\ var < Selected
          /\ Cardinality(assignment.varDomains[var])
                = Cardinality(assignment.varDomains[Selected])
          /\ References(csp, var) < References(csp, Selected)

(***************************************************************************)
(* C22  At every point of a solve call each variable's working domain is a *)
(* subset of the variable's original CSP domain and every variable that    *)
(* has a current value has a value of its original CSP domain; in          *)
(* particular no undo step adds to a domain a value that was not in the    *)
(* original domain.                                                        *)
(***************************************************************************)
C22_WithinOriginalDomains ==
    \A var \in Vars :
        /\ assignment.varDomains[var] \subseteq csp.varDomains[var]
        /\ isAssigned(assignment, var)
              => assignment.assignedValues[var] \in csp.varDomains[var]

\* an undo step has just put a pruned value back into a domain while another
\* value of the original domains stays pruned
C22_Witness ==
    /\ last.op = "revert"
    /\ \E p \in Top.inferences : p[2] \in assignment.varDomains[p[1]]
    /\ \E var \in Vars : assignment.varDomains[var] # csp.varDomains[var]

(***************************************************************************)
(* C23  Termination: every solve call eventually terminates under every    *)
(* strategy combination, the backtracking driver reaching success or       *)
(* failure, and every maintainArcConsistency / AC3 call eventually returns, *)
(* its work queue having become empty or a revision having failed.         *)
(***************************************************************************)
C23_Termination == <>(pc \in {"done", "returned"})

\* a solve call that ended after the AC3 pass had emptied its queue and the
\* driver, run with maintainArcConsistency, had tried every candidate in vain
C23_Witness ==
    /\ pc = "done"
    /\ ret = "failure"
    /\ last.op = "returned"
    /\ useAC3
    /\ inferenceMethod = "maintainArcConsistency"

(***************************************************************************)
(* The properties above that fail only through the order of the arguments  *)
(* of isSatisfied (C8) hold of the problems whose binary constraints are   *)
(* all NotEqual, for which the order does not matter.                      *)
(***************************************************************************)
OnlyNotEqual ==
    \A i \in 1..Len(csp.binaryConstraints) : csp.binaryConstraints[i].rel = "NotEqual"

NotEqual_Soundness == OnlyNotEqual => C1_Soundness
NotEqual_Completeness == OnlyNotEqual => C2_Completeness
NotEqual_UnsatisfiableGivesNone == OnlyNotEqual => C4_UnsatisfiableGivesNone
NotEqual_ArcConsistencySound == OnlyNotEqual => C5_ArcConsistencySound
NotEqual_ConsistentIff == OnlyNotEqual => C7_ConsistentIff
NotEqual_LeastConstrainingOrder == OnlyNotEqual => C10_LeastConstrainingOrder
NotEqual_ReviseExact == OnlyNotEqual => C12_ReviseExact
NotEqual_AC3ArcConsistent == OnlyNotEqual => C16_AC3ArcConsistent
====
